---- MODULE Spec2Model ----
(***************************************************************************)
(* Model of the help-request lifecycle (routes/requests.js: create, get,   *)
(* accept, complete over the HelpRequest collection), of the message       *)
(* routes (routes/messages.js: send, mark read, unread count over the      *)
(* Message collection) and of the socket.io chat gateway (server.js:       *)
(* connection, join_room, leave_room, send_message, disconnect over        *)
(* connectedUsers / userRooms / roomUsers).                                *)
(*                                                                         *)
(* An await on the database is a suspension point: a handler is one action *)
(* per stretch of code between awaits, so handlers interleave where Node's *)
(* event loop lets them.  A stretch that neither writes shared state nor   *)
(* reads anything another handler can change is joined to its neighbour.   *)
(***************************************************************************)
EXTENDS Integers, Sequences, FiniteSets, TLC

\* ---------------------------------------------------------------- bounds
MaxReq == 1        \* HelpRequest documents that may be created
MaxCalls == 3      \* accept/complete HTTP calls issued in one behaviour
MaxEvents == 5     \* client events the gateway receives in one behaviour
MaxLen == 3        \* length of a title or description in a POST / body

\* ------------------------------------------------------------ vocabulary
Users == {"u1", "u2", "u3"}          \* ids carried by valid JWTs (req.user.id)
None == "none"                       \* an unset ObjectId path (undefined)
NoDate == 0                          \* an unset Date path (undefined)
Calls == 1..MaxCalls
ReqIds == 1..MaxReq

Sockets == {1, 2}                    \* connections offered to the gateway, in order
AuthIds == {"u1", "u2", "u9"}        \* handshake auth.userId values (client supplied)
NoAuth == ""                         \* a handshake without auth.userId
UserDocs == {"u1", "u2"}             \* ids that have a User document
RoomIds == {1, 2}                    \* requestId values carried by gateway events

VARIABLES
    requests,   \* the HelpRequest collection: sequence of documents, _id = index
    calls,      \* the accept/complete calls: position, inputs, what they read, response
    emitted,    \* io.emit(...) broadcasts made by the REST handlers
    lastAccept  \* per request: the accept call whose save() landed last (history)

restVars == <<requests, calls, emitted, lastAccept>>

VARIABLES
    sock,            \* per connection: state and socket.userId
    joined,          \* per connection: the socket.io rooms it is in (adapter)
    connectedUsers,  \* Map userId -> socket
    userRooms,       \* Map userId -> Set of roomIds
    roomUsers,       \* Map roomId -> Set of userIds
    messages,        \* the Message collection, in the order the rows were written
    nEvents,         \* client events the gateway has received so far
    joins,           \* per connection: its join_room handler suspended at findById
    sends            \* per connection: its latest send_message handler

gwVars ==
    <<sock, joined, connectedUsers, userRooms, roomUsers, messages, nEvents, joins, sends>>

VARIABLES
    client,  \* the browser's SocketService: its socket, isConnected, currentRoom
    wire     \* what that client has sent to the gateway, in the order sent

cliVars == <<client, wire>>

vars == <<restVars, gwVars, cliVars>>

\* The SocketService after its constructor: no socket, not connected, no room.
\* sock is the number of the gateway connection behind this.socket (0: none).
IdleClient == [sock |-> 0, isConnected |-> FALSE, currentRoom |-> 0]

\* =====================================================================
\*  HelpRequest schema and the request routes
\* =====================================================================

\* Strings are sequences of characters; " " stands for whitespace.
Chars == {" ", "a"}
Strs == UNION {[1..n -> Chars] : n \in 0..MaxLen}

\* Category documents, and the categoryId values a body may carry ("c0" is a
\* well-formed id of no category).
Categories == {"c1", "c2"}
CategoryIds == Categories \cup {"c0"}

\* urgency of a body: absent, a member of the schema's enum, or another string.
NoUrgency == "absent"
UrgencyEnum == {"low", "medium", "high"}
UrgencyInputs == {NoUrgency, "low", "high", "asap"}

\* The POST / bodies: title, description, categoryId, urgency.
Bodies ==
    [title : Strs, description : Strs, categoryId : CategoryIds, urgency : UrgencyInputs]

\* A sanitizer chain without trim().
SanitizeNoTrim(b) == b

\* validator's trim(): leading and trailing whitespace removed.
RECURSIVE TrimLeft(_)
TrimLeft(str) ==
    IF str # <<>> /\ Head(str) = " " THEN TrimLeft(Tail(str)) ELSE str

RECURSIVE TrimRight(_)
TrimRight(str) ==
    IF str # <<>> /\ str[Len(str)] = " "
    THEN TrimRight(SubSeq(str, 1, Len(str) - 1)) ELSE str

Trim(str) == TrimRight(TrimLeft(str))

\* body("title").trim(), body("description").trim(): the sanitized values
\* replace the fields of req.body.
Sanitize(b) ==
    [b EXCEPT !.title = Trim(b.title), !.description = Trim(b.description)]

\* What POST / answers for a sanitized body: 400 on a validation error
\* (isLength({min: 1})) or an unknown category, 500 when save() rejects the
\* document (urgency outside the enum), else 201.
CreateCheck(b) ==
    IF Len(b.title) < 1 \/ Len(b.description) < 1 THEN "Invalid"
    ELSE IF b.categoryId \notin Categories THEN "Invalid"
    ELSE IF b.urgency # NoUrgency /\ b.urgency \notin UrgencyEnum THEN "Error"
    ELSE "Created"

\* new HelpRequest({requester, category, title, description, urgency:
\* urgency || 'medium', ...}) with the schema defaults: status defaults to
\* 'open'; helper, acceptedAt, completedAt are absent.
NewHelpRequest(u, b) ==
    [requester |-> u, category |-> b.categoryId,
     title |-> b.title, description |-> b.description,
     urgency |-> IF b.urgency = NoUrgency THEN "medium" ELSE b.urgency,
     status |-> "open", helper |-> None,
     acceptedAt |-> NoDate, completedAt |-> NoDate]

\* The body of the requests posted where the lifecycle alone is studied.
PlainBody ==
    [title |-> <<"a">>, description |-> <<"a">>, categoryId |-> "c1",
     urgency |-> NoUrgency]

NewRequest(u) == NewHelpRequest(u, Sanitize(PlainBody))

\* accept with the self-accept check only (the status check dropped).
AcceptCheckNoStatus(doc, caller) ==
    IF doc.requester = caller THEN "SelfAccept" ELSE "pass"

\* accept with the status check only (the self-accept check dropped).
AcceptCheckNoSelf(doc, caller) ==
    IF doc.status # "open" THEN "InvalidState" ELSE "pass"

\* The checks of POST /:id/accept after findById, in source order.
AcceptCheck(doc, caller) ==
    IF doc.status # "open" THEN "InvalidState"          \* 400 Request is not available
    ELSE IF doc.requester = caller THEN "SelfAccept"    \* 400 Cannot accept your own request
    ELSE "pass"

\* accept that forgets to assign request.helper.
AcceptSetNoHelper(doc, caller, t) ==
    [doc EXCEPT !.status = "in_progress", !.acceptedAt = t]

\* accept whose write is conditional on the stored status (first write wins).
AcceptSetIfOpen(doc, caller, t) ==
    IF doc.status = "open"
    THEN [doc EXCEPT !.helper = caller, !.status = "in_progress", !.acceptedAt = t]
    ELSE doc

\* The paths accept modifies; request.save() $sets exactly these.
AcceptSet(doc, caller, t) ==
    [doc EXCEPT !.helper = caller, !.status = "in_progress", !.acceptedAt = t]

\* complete without the helper check.
CompleteCheckNoHelper(doc, caller) ==
    IF doc.status # "in_progress" THEN "InvalidState" ELSE "pass"

\* complete answering a non-helper with the status error.
CompleteCheckOneError(doc, caller) ==
    IF doc.status # "in_progress" \/ doc.helper # caller THEN "InvalidState"
    ELSE "pass"

\* The checks of POST /:id/complete after findById, in source order.
CompleteCheck(doc, caller) ==
    IF doc.status # "in_progress" THEN "InvalidState"   \* 400 Request is not in progress
    ELSE IF doc.helper # caller THEN "Forbidden"        \* 403 Only the helper can complete ...
    ELSE "pass"

\* The paths complete modifies; request.save() $sets exactly these.
CompleteSet(doc, t) ==
    [doc EXCEPT !.status = "completed", !.completedAt = t]

\* body: the body a POST / call carries; got: the document a call answers
\* with; seenIds, count: the request ids GET /unread/count found and the
\* count it answers with; quiet: every earlier call had answered when the
\* call made its first read; mail: what became of the emails the call sent.
IdleCall ==
    [kind |-> "idle", pc |-> "idle", caller |-> None, rid |-> 0,
     seenStatus |-> None, seenHelper |-> None, resp |-> None,
     body |-> None, got |-> None, seenIds |-> {}, count |-> 0, quiet |-> FALSE,
     mail |-> None]

\* Before any request is posted and before any socket connects.
RestInit ==
    /\ requests = <<>>
    /\ calls = [c \in Calls |-> IdleCall]
    /\ emitted = {}
    /\ lastAccept = [r \in ReqIds |-> 0]
    /\ sock = [s \in Sockets |-> [st |-> "fresh", uid |-> NoAuth, leftTo |-> {}]]
    /\ joined = [s \in Sockets |-> {}]
    /\ connectedUsers = <<>>
    /\ userRooms = <<>>
    /\ roomUsers = <<>>
    /\ messages = <<>>
    /\ nEvents = 0
    /\ joins = [s \in Sockets |->
                   [pc |-> "idle", rid |-> 0, uid |-> NoAuth, left |-> {}, late |-> 0]]
    /\ sends = [s \in Sockets |->
                   [pc |-> "idle", id |-> 0, uid |-> NoAuth, rid |-> 0,
                    outcome |-> None, rcpt |-> {}, members |-> {}, notified |-> {},
                    errTo |-> {}]]
    /\ client = IdleClient
    /\ wire = <<>>

\* POST / : a new document with status open and no helper is inserted.
CreateRequest(u) ==
    /\ Len(requests) < MaxReq
    /\ requests' = Append(requests, NewRequest(u))
    /\ UNCHANGED <<calls, emitted, lastAccept>>
    /\ UNCHANGED gwVars
    /\ UNCHANGED cliVars

\* The next unused call slot (calls are issued in slot order).
NextCall(c) ==
    /\ calls[c].kind = "idle"
    /\ \A d \in Calls : d < c => calls[d].kind # "idle"

\* POST /:id/accept up to the await of save(): findById, the three checks,
\* the assignments to the in-memory document.
AcceptFind(c, u, r) ==
    /\ NextCall(c)
    /\ LET base == [IdleCall EXCEPT !.kind = "accept", !.caller = u, !.rid = r]
       IN IF r > Len(requests)
          THEN calls' = [calls EXCEPT ![c] =
                            [base EXCEPT !.pc = "done", !.resp = "NotFound"]]
          ELSE LET doc == requests[r]
                   chk == AcceptCheck(doc, u)
                   seen == [base EXCEPT !.seenStatus = doc.status,
                                        !.seenHelper = doc.helper]
               IN calls' = [calls EXCEPT ![c] =
                     IF chk = "pass" THEN [seen EXCEPT !.pc = "save"]
                     ELSE [seen EXCEPT !.pc = "done", !.resp = chk]]
    /\ UNCHANGED <<requests, emitted, lastAccept>>
    /\ UNCHANGED gwVars
    /\ UNCHANGED cliVars

\* An accept that awaits its emails in the handler's outer try block, so that
\* a rejected sendMail reaches the catch that answers 500.
AcceptSaveMailStrict(c, ok) ==
    /\ calls[c].kind = "accept" /\ calls[c].pc = "save"
    /\ requests' = [requests EXCEPT ![calls[c].rid] =
                        AcceptSet(@, calls[c].caller, c)]
    /\ lastAccept' = [lastAccept EXCEPT ![calls[c].rid] = c]
    /\ emitted' = emitted \cup
          { [name |-> "request_accepted", rid |-> calls[c].rid,
             status |-> "in_progress", call |-> c],
            [name |-> "request_status_updated", rid |-> calls[c].rid,
             status |-> "in_progress", call |-> c] }
    /\ calls' = [calls EXCEPT ![c].pc = "done",
                              ![c].resp = IF ok THEN "OK" ELSE "Error",
                              ![c].got = IF ok THEN requests'[calls[c].rid] ELSE None,
                              ![c].mail = IF ok THEN "sent" ELSE "failed"]
    /\ UNCHANGED gwVars
    /\ UNCHANGED cliVars

\* The save() of accept lands in the store and the handler runs to its end:
\* the second findById (populate), the two io.emit, the best-effort emails (a
\* rejected sendEmail is caught and logged), res.json(populatedRequest).
\* Nothing after save() writes to the store, so the tail is one step with it.
\* ok: transporter.sendMail resolved for both emails.
AcceptSaveMail(c, ok) ==
    /\ calls[c].kind = "accept" /\ calls[c].pc = "save"
    /\ requests' = [requests EXCEPT ![calls[c].rid] =
                        AcceptSet(@, calls[c].caller, c)]
    /\ lastAccept' = [lastAccept EXCEPT ![calls[c].rid] = c]
    /\ emitted' = emitted \cup
          { [name |-> "request_accepted", rid |-> calls[c].rid,
             status |-> "in_progress", call |-> c],
            [name |-> "request_status_updated", rid |-> calls[c].rid,
             status |-> "in_progress", call |-> c] }
    /\ calls' = [calls EXCEPT ![c].pc = "done", ![c].resp = "OK",
                              ![c].got = requests'[calls[c].rid],
                              ![c].mail = IF ok THEN "sent" ELSE "failed"]
    /\ UNCHANGED gwVars
    /\ UNCHANGED cliVars

\* The accept whose emails go out.
AcceptSave(c) == AcceptSaveMail(c, TRUE)

\* POST /:id/complete up to the await of save().
CompleteFind(c, u, r) ==
    /\ NextCall(c)
    /\ LET base == [IdleCall EXCEPT !.kind = "complete", !.caller = u, !.rid = r]
       IN IF r > Len(requests)
          THEN calls' = [calls EXCEPT ![c] =
                            [base EXCEPT !.pc = "done", !.resp = "NotFound"]]
          ELSE LET doc == requests[r]
                   chk == CompleteCheck(doc, u)
                   seen == [base EXCEPT !.seenStatus = doc.status,
                                        !.seenHelper = doc.helper]
               IN calls' = [calls EXCEPT ![c] =
                     IF chk = "pass" THEN [seen EXCEPT !.pc = "save"]
                     ELSE [seen EXCEPT !.pc = "done", !.resp = chk]]
    /\ UNCHANGED <<requests, emitted, lastAccept>>
    /\ UNCHANGED gwVars
    /\ UNCHANGED cliVars

\* The save() of complete lands in the store and the handler runs to its
\* end: populate, the io.emit, the best-effort emails, res.json.
\* ok: transporter.sendMail resolved for both emails.
CompleteSaveMail(c, ok) ==
    /\ calls[c].kind = "complete" /\ calls[c].pc = "save"
    /\ requests' = [requests EXCEPT ![calls[c].rid] = CompleteSet(@, c)]
    /\ emitted' = emitted \cup
          { [name |-> "request_status_updated", rid |-> calls[c].rid,
             status |-> "completed", call |-> c] }
    /\ calls' = [calls EXCEPT ![c].pc = "done", ![c].resp = "OK",
                              ![c].got = requests'[calls[c].rid],
                              ![c].mail = IF ok THEN "sent" ELSE "failed"]
    /\ UNCHANGED lastAccept
    /\ UNCHANGED gwVars
    /\ UNCHANGED cliVars

\* The complete whose emails go out.
CompleteSave(c) == CompleteSaveMail(c, TRUE)

\* POST / of a call that carries a body: the validation chain, the category
\* lookup, save().  The response is the stored document.
PostRequest(c) ==
    /\ calls[c].kind = "create" /\ calls[c].pc = "start"
    /\ Len(requests) < MaxReq
    /\ LET b == Sanitize(calls[c].body)
           chk == CreateCheck(b)
           doc == NewHelpRequest(calls[c].caller, b)
       IN IF chk = "Created"
          THEN /\ requests' = Append(requests, doc)
               /\ calls' = [calls EXCEPT ![c] =
                     [@ EXCEPT !.pc = "done", !.resp = chk,
                               !.rid = Len(requests) + 1, !.got = doc]]
          ELSE /\ requests' = requests
               /\ calls' = [calls EXCEPT ![c] = [@ EXCEPT !.pc = "done", !.resp = chk]]
    /\ UNCHANGED <<emitted, lastAccept>>
    /\ UNCHANGED gwVars
    /\ UNCHANGED cliVars

\* GET /:id : findById, 404 when there is no such document, else the document.
GetRequest(c, r) ==
    /\ NextCall(c)
    /\ LET base == [IdleCall EXCEPT !.kind = "get", !.rid = r, !.pc = "done"]
       IN calls' = [calls EXCEPT ![c] =
             IF r > Len(requests) THEN [base EXCEPT !.resp = "NotFound"]
             ELSE [base EXCEPT !.resp = "OK", !.got = requests[r]]]
    /\ UNCHANGED <<requests, emitted, lastAccept>>
    /\ UNCHANGED gwVars
    /\ UNCHANGED cliVars

\* A POST / call has arrived with any body of Bodies, from any user.
RoundTripInit ==
    /\ requests = <<>>
    /\ calls \in {[c \in Calls |->
                      IF c = 1
                      THEN [IdleCall EXCEPT !.kind = "create", !.pc = "start",
                                            !.caller = u, !.body = b]
                      ELSE IdleCall] : u \in Users, b \in Bodies}
    /\ emitted = {}
    /\ lastAccept = [r \in ReqIds |-> 0]
    /\ sock = [s \in Sockets |-> [st |-> "fresh", uid |-> NoAuth, leftTo |-> {}]]
    /\ joined = [s \in Sockets |-> {}]
    /\ connectedUsers = <<>>
    /\ userRooms = <<>>
    /\ roomUsers = <<>>
    /\ messages = <<>>
    /\ nEvents = 0
    /\ joins = [s \in Sockets |->
                   [pc |-> "idle", rid |-> 0, uid |-> NoAuth, left |-> {}, late |-> 0]]
    /\ sends = [s \in Sockets |->
                   [pc |-> "idle", id |-> 0, uid |-> NoAuth, rid |-> 0,
                    outcome |-> None, rcpt |-> {}, members |-> {}, notified |-> {},
                    errTo |-> {}]]
    /\ client = IdleClient
    /\ wire = <<>>

RoundTripNext ==
    \/ \E c \in Calls : PostRequest(c)
    \/ \E c \in Calls, r \in ReqIds : GetRequest(c, r)

RestNext ==
    \/ \E u \in Users : CreateRequest(u)
    \/ \E c \in Calls, u \in Users, r \in ReqIds : AcceptFind(c, u, r)
    \/ \E c \in Calls : AcceptSave(c)
    \/ \E c \in Calls, u \in Users, r \in ReqIds : CompleteFind(c, u, r)
    \/ \E c \in Calls : CompleteSave(c)

\* =====================================================================
\*  The socket.io gateway
\* =====================================================================

\* Map.set / Map.delete on a Map modelled as a function on its key set.
MapSet(m, k, v) == [x \in (DOMAIN m) \cup {k} |-> IF x = k THEN v ELSE m[x]]
MapDel(m, k) == [x \in (DOMAIN m) \ {k} |-> m[x]]
EmptyMap == [x \in {} |-> {}]

\* The HelpRequest documents the gateway reads: request 1 was created by u1
\* and accepted by u2, request 2 was created by u2 and is still open.
GwRequests ==
    << AcceptSet(NewRequest("u1"), "u2", 1), NewRequest("u2") >>

\* leftTo: the <<room, socket>> pairs the socket's disconnect handler sent
\* 'user_left_room' to.
FreshSock == [st |-> "fresh", uid |-> NoAuth, leftTo |-> {}]

\* left: the rooms this connection was joined to under its own userId and has
\* left with leave_room since its last join_room for them; late: the room of
\* the connection's last join_room when a leave_room for that room and the
\* connection's own userId was handled while the join awaited its lookup.
IdleJoin == [pc |-> "idle", rid |-> 0, uid |-> NoAuth, left |-> {}, late |-> 0]

\* rcpt, notified, errTo: the sockets the handler sent 'message',
\* 'notification' and 'error' to; members: roomUsers.get(rid) as it read it.
IdleSend ==
    [pc |-> "idle", id |-> 0, uid |-> NoAuth, rid |-> 0, outcome |-> None,
     rcpt |-> {}, members |-> {}, notified |-> {}, errTo |-> {}]

\* The gateway starts with empty maps, over a store holding GwRequests.
GwInit ==
    /\ requests = GwRequests
    /\ calls = [c \in Calls |-> IdleCall]
    /\ emitted = {}
    /\ lastAccept = [r \in ReqIds |-> 0]
    /\ sock = [s \in Sockets |-> FreshSock]
    /\ joined = [s \in Sockets |-> {}]
    /\ connectedUsers = EmptyMap
    /\ userRooms = EmptyMap
    /\ roomUsers = EmptyMap
    /\ messages = <<>>
    /\ nEvents = 0
    /\ joins = [s \in Sockets |-> IdleJoin]
    /\ sends = [s \in Sockets |-> IdleSend]
    /\ client = IdleClient
    /\ wire = <<>>

Live(s) == sock[s].st = "live"

\* One more client event (connect, join_room, leave_room, send_message,
\* disconnect) reaches the gateway.
Receive ==
    /\ nEvents < MaxEvents
    /\ nEvents' = nEvents + 1

\* A broadcast that goes to the registered socket of every listed room user
\* instead of the socket.io room.
IoToRegistered(R) ==
    {connectedUsers[u] :
        u \in (IF R \in DOMAIN roomUsers THEN roomUsers[R] ELSE {}) \cap DOMAIN connectedUsers}

\* io.to(R): the connected sockets that are in socket.io room R.
IoTo(R) == {s \in Sockets : Live(s) /\ R \in joined[s]}

\* roomUsers.get(R), with undefined read as no members.
MembersOf(R) == IF R \in DOMAIN roomUsers THEN roomUsers[R] ELSE {}

\* A connection handler that keeps the entry of an earlier connection.
ConnectKeepFirst(s, uid) ==
    /\ Receive
    /\ sock[s].st = "fresh"
    /\ \A t \in Sockets : t < s => sock[t].st # "fresh"
    /\ IF uid = NoAuth
       THEN /\ sock' = [sock EXCEPT ![s] = [FreshSock EXCEPT !.st = "rejected"]]
            /\ UNCHANGED <<connectedUsers, userRooms>>
       ELSE /\ sock' = [sock EXCEPT ![s] = [FreshSock EXCEPT !.st = "live", !.uid = uid]]
            /\ connectedUsers' = IF uid \in DOMAIN connectedUsers THEN connectedUsers
                                 ELSE MapSet(connectedUsers, uid, s)
            /\ userRooms' = IF uid \in DOMAIN userRooms THEN userRooms
                            ELSE MapSet(userRooms, uid, {})
    /\ UNCHANGED <<joined, roomUsers, messages, joins, sends>>
    /\ UNCHANGED restVars
    /\ UNCHANGED cliVars

\* io.use + io.on('connection'): a handshake without a truthy auth.userId is
\* rejected; otherwise the socket is stored under its userId and the user's
\* room set is created if absent.
Connect(s, uid) ==
    /\ Receive
    /\ sock[s].st = "fresh"
    /\ \A t \in Sockets : t < s => sock[t].st # "fresh"
    /\ IF uid = NoAuth
       THEN /\ sock' = [sock EXCEPT ![s] = [FreshSock EXCEPT !.st = "rejected"]]
            /\ UNCHANGED <<connectedUsers, userRooms>>
       ELSE /\ sock' = [sock EXCEPT ![s] = [FreshSock EXCEPT !.st = "live", !.uid = uid]]
            /\ connectedUsers' = MapSet(connectedUsers, uid, s)
            /\ userRooms' = IF uid \in DOMAIN userRooms THEN userRooms
                            ELSE MapSet(userRooms, uid, {})
    /\ UNCHANGED <<joined, roomUsers, messages, joins, sends>>
    /\ UNCHANGED restVars
    /\ UNCHANGED cliVars

\* The access check of join_room on the looked-up request and the userId of
\* the event payload.
JoinAllowed(rid, uid) ==
    /\ rid \in 1..Len(requests)
    /\ \/ requests[rid].requester = uid
       \/ (requests[rid].helper # None /\ requests[rid].helper = uid)

\* socket.on('join_room') up to the await of HelpRequest.findById.  A
\* connection sends its next join_room once the previous one has been handled.
JoinStart(s, rid, uid) ==
    /\ Receive
    /\ Live(s)
    /\ joins[s].pc = "idle"
    /\ joins' = [joins EXCEPT ![s] = [@ EXCEPT !.pc = "find", !.rid = rid, !.uid = uid,
                                               !.late = 0]]
    /\ UNCHANGED <<sock, joined, connectedUsers, userRooms, roomUsers, messages, sends>>
    /\ UNCHANGED restVars
    /\ UNCHANGED cliVars

\* A join_room that records the user in roomUsers before it touches
\* userRooms, so that the throwing add leaves the roomUsers entry behind.
JoinResumeRoomFirst(s) ==
    /\ joins[s].pc = "find"
    /\ LET rid == joins[s].rid
           uid == joins[s].uid
       IN IF ~JoinAllowed(rid, uid)
          THEN UNCHANGED <<joined, userRooms, roomUsers>>
          ELSE /\ joined' = IF Live(s) THEN [joined EXCEPT ![s] = @ \cup {rid}]
                            ELSE joined
               /\ roomUsers' = MapSet(roomUsers, rid, MembersOf(rid) \cup {uid})
               /\ userRooms' = IF uid \notin DOMAIN userRooms THEN userRooms
                                ELSE [userRooms EXCEPT ![uid] = @ \cup {rid}]
    /\ joins' = [joins EXCEPT ![s] = [IdleJoin EXCEPT !.left = joins[s].left \ {joins[s].rid},
                                                      !.late = joins[s].late]]
    /\ UNCHANGED <<sock, connectedUsers, messages, nEvents, sends>>
    /\ UNCHANGED restVars
    /\ UNCHANGED cliVars

\* join_room after the lookup: the two silent returns, socket.join, the
\* tracking updates.  userRooms.get(userId) is undefined for a userId with
\* no entry: the add throws after socket.join and the catch only logs.
\* (socket.join on a socket that has disconnected meanwhile reaches nobody.)
JoinResume(s) ==
    /\ joins[s].pc = "find"
    /\ LET rid == joins[s].rid
           uid == joins[s].uid
       IN IF ~JoinAllowed(rid, uid)
          THEN UNCHANGED <<joined, userRooms, roomUsers>>
          ELSE /\ joined' = IF Live(s) THEN [joined EXCEPT ![s] = @ \cup {rid}]
                            ELSE joined
               /\ IF uid \notin DOMAIN userRooms
                  THEN UNCHANGED <<userRooms, roomUsers>>
                  ELSE /\ userRooms' = [userRooms EXCEPT ![uid] = @ \cup {rid}]
                       /\ roomUsers' = MapSet(roomUsers, rid, MembersOf(rid) \cup {uid})
    /\ joins' = [joins EXCEPT ![s] = [IdleJoin EXCEPT !.left = joins[s].left \ {joins[s].rid},
                                                      !.late = joins[s].late]]
    /\ UNCHANGED <<sock, connectedUsers, messages, nEvents, sends>>
    /\ UNCHANGED restVars
    /\ UNCHANGED cliVars

\* A leave_room that keeps the entry of a room it has emptied.
LeaveRoomKeepEmpty(s, rid, uid) ==
    /\ Receive
    /\ Live(s)
    /\ joined' = [joined EXCEPT ![s] = @ \ {rid}]
    /\ userRooms' = IF uid \in DOMAIN userRooms
                    THEN [userRooms EXCEPT ![uid] = @ \ {rid}]
                    ELSE userRooms
    /\ roomUsers' = IF rid \in DOMAIN roomUsers
                    THEN [roomUsers EXCEPT ![rid] = @ \ {uid}]
                    ELSE roomUsers
    /\ UNCHANGED <<sock, connectedUsers, messages, joins, sends>>
    /\ UNCHANGED restVars
    /\ UNCHANGED cliVars

\* socket.on('leave_room'): synchronous; socket.leave, the tracking updates,
\* 'user_left_room' with socket.to(room).
LeaveRoom(s, rid, uid) ==
    /\ Receive
    /\ Live(s)
    /\ joined' = [joined EXCEPT ![s] = @ \ {rid}]
    /\ userRooms' = IF uid \in DOMAIN userRooms
                    THEN [userRooms EXCEPT ![uid] = @ \ {rid}]
                    ELSE userRooms
    /\ roomUsers' = IF rid \in DOMAIN roomUsers
                    THEN IF roomUsers[rid] \ {uid} = {}
                         THEN MapDel(roomUsers, rid)
                         ELSE [roomUsers EXCEPT ![rid] = @ \ {uid}]
                    ELSE roomUsers
    /\ joins' = IF /\ joins[s].pc = "idle" /\ uid = sock[s].uid
                    /\ rid \in joined[s] /\ uid \in MembersOf(rid)
                 THEN [joins EXCEPT ![s].left = @ \cup {rid}]
                 ELSE IF /\ joins[s].pc = "find" /\ uid = sock[s].uid
                         /\ rid = joins[s].rid /\ uid = joins[s].uid
                 THEN [joins EXCEPT ![s].late = rid]
                 ELSE joins
    /\ UNCHANGED <<sock, connectedUsers, messages, sends>>
    /\ UNCHANGED restVars
    /\ UNCHANGED cliVars

\* A disconnect handler that deletes the registry entry only when it is the
\* closing socket's own, and the user's room tracking regardless.
DisconnectOwnEntry(s) ==
    /\ Receive
    /\ Live(s)
    /\ LET uid == sock[s].uid
           mine == IF uid \in DOMAIN userRooms THEN userRooms[uid] ELSE {}
       IN /\ sock' = [sock EXCEPT ![s].st = "closed",
                                   ![s].leftTo = {<<r, t>> \in mine \X (Sockets \ {s}) :
                                                     Live(t) /\ r \in joined[t]}]
          /\ joined' = [joined EXCEPT ![s] = {}]
          /\ connectedUsers' = IF uid \in DOMAIN connectedUsers /\ connectedUsers[uid] = s
                               THEN MapDel(connectedUsers, uid)
                               ELSE connectedUsers
          /\ roomUsers' =
                [r \in {q \in DOMAIN roomUsers :
                           ~(q \in mine /\ roomUsers[q] \ {uid} = {})} |->
                    IF r \in mine THEN roomUsers[r] \ {uid} ELSE roomUsers[r]]
          /\ userRooms' = MapDel(userRooms, uid)
    /\ UNCHANGED <<messages, joins, sends>>
    /\ UNCHANGED restVars
    /\ UNCHANGED cliVars

\* socket.on('disconnect'): socket.io has already removed the socket from
\* its rooms; the handler deletes the connectedUsers entry of socket.userId
\* and clears that user's rooms, sending 'user_left_room' for each of them
\* with socket.to(room): to the other sockets that are in the socket.io room.
Disconnect(s) ==
    /\ Receive
    /\ Live(s)
    /\ LET uid == sock[s].uid
           mine == IF uid \in DOMAIN userRooms THEN userRooms[uid] ELSE {}
       IN /\ sock' = [sock EXCEPT ![s].st = "closed",
                                   ![s].leftTo = {<<r, t>> \in mine \X (Sockets \ {s}) :
                                                     Live(t) /\ r \in joined[t]}]
          /\ joined' = [joined EXCEPT ![s] = {}]
          /\ connectedUsers' = MapDel(connectedUsers, uid)
          /\ roomUsers' =
                [r \in {q \in DOMAIN roomUsers :
                           ~(q \in mine /\ roomUsers[q] \ {uid} = {})} |->
                    IF r \in mine THEN roomUsers[r] \ {uid} ELSE roomUsers[r]]
          /\ userRooms' = MapDel(userRooms, uid)
    /\ UNCHANGED <<messages, joins, sends>>
    /\ UNCHANGED restVars
    /\ UNCHANGED cliVars

\* socket.on('send_message') up to the await of save(): senderId is
\* socket.userId; the handler returns silently when User.findById finds no
\* document.  A connection sends its next message once the previous one has
\* been handled; the message is identified by its arrival number.
SendStart(s, rid) ==
    /\ Receive
    /\ Live(s)
    /\ sends[s].pc \in {"idle", "done"}
    /\ LET base == [IdleSend EXCEPT !.id = nEvents', !.uid = sock[s].uid, !.rid = rid]
       IN sends' = [sends EXCEPT ![s] =
             IF sock[s].uid \in UserDocs THEN [base EXCEPT !.pc = "save"]
             ELSE [base EXCEPT !.pc = "done", !.outcome = "nouser"]]
    /\ UNCHANGED <<sock, joined, connectedUsers, userRooms, roomUsers, messages, joins>>
    /\ UNCHANGED restVars
    /\ UNCHANGED cliVars

\* The row new Message({request, sender, ..., isRead: false}).
NewMessage(h) ==
    [id |-> h.id, request |-> h.rid, sender |-> h.uid, isRead |-> FALSE]

\* A handler whose catch sends 'error' to the whole room.
SendSaveErrorToRoom(s, ok) ==
    /\ sends[s].pc = "save"
    /\ IF ok
       THEN /\ messages' = Append(messages, NewMessage(sends[s]))
            /\ sends' = [sends EXCEPT ![s].pc = "emit"]
       ELSE /\ messages' = messages
            /\ sends' = [sends EXCEPT ![s].pc = "done", ![s].outcome = "error",
                                      ![s].errTo = IoTo(sends[s].rid) \cup {s}]
    /\ UNCHANGED <<sock, joined, connectedUsers, userRooms, roomUsers, nEvents, joins>>
    /\ UNCHANGED restVars
    /\ UNCHANGED cliVars

\* newMessage.save() settles: the row is written, or the write is rejected
\* and the catch sends 'error' to the sending socket only.
SendSave(s, ok) ==
    /\ sends[s].pc = "save"
    /\ IF ok
       THEN /\ messages' = Append(messages, NewMessage(sends[s]))
            /\ sends' = [sends EXCEPT ![s].pc = "emit"]
       ELSE /\ messages' = messages
            /\ sends' = [sends EXCEPT ![s].pc = "done", ![s].outcome = "error",
                                      ![s].errTo = IF Live(s) THEN {s} ELSE {}]
    /\ UNCHANGED <<sock, joined, connectedUsers, userRooms, roomUsers, nEvents, joins>>
    /\ UNCHANGED restVars
    /\ UNCHANGED cliVars

\* Notifications that do not skip the sender.
NotifyTargetsAll(R, sender) ==
    {connectedUsers[u] : u \in MembersOf(R) \cap DOMAIN connectedUsers}

\* The sockets that get the 'notification' of a message from sender in R:
\* the registered socket of every other user listed in roomUsers[R].
NotifyTargets(R, sender) ==
    {connectedUsers[u] : u \in (MembersOf(R) \ {sender}) \cap DOMAIN connectedUsers}

\* send_message after save(): io.to(requestId).emit('message'), then the
\* notifications.
SendEmit(s) ==
    /\ sends[s].pc = "emit"
    /\ sends' = [sends EXCEPT ![s] =
          [@ EXCEPT !.pc = "done", !.outcome = "sent",
                    !.rcpt = IoTo(sends[s].rid),
                    !.members = MembersOf(sends[s].rid),
                    !.notified = {t \in NotifyTargets(sends[s].rid, sends[s].uid) : Live(t)}]]
    /\ UNCHANGED <<sock, joined, connectedUsers, userRooms, roomUsers, messages, nEvents, joins>>
    /\ UNCHANGED restVars
    /\ UNCHANGED cliVars

\* The gateway's steps when the events it receives carry a requestId of rooms.
GwNextFor(rooms) ==
    \/ \E s \in Sockets, uid \in AuthIds \cup {NoAuth} : Connect(s, uid)
    \/ \E s \in Sockets, rid \in rooms, uid \in AuthIds : JoinStart(s, rid, uid)
    \/ \E s \in Sockets : JoinResume(s)
    \/ \E s \in Sockets, rid \in rooms, uid \in AuthIds : LeaveRoom(s, rid, uid)
    \/ \E s \in Sockets : Disconnect(s)
    \/ \E s \in Sockets, rid \in rooms : SendStart(s, rid)
    \/ \E s \in Sockets, ok \in BOOLEAN : SendSave(s, ok)
    \/ \E s \in Sockets : SendEmit(s)

GwNext == GwNextFor(RoomIds)

\* =====================================================================
\*  The client's SocketService and the gateway it talks to
\* =====================================================================

\* The user the client is logged in as: helper of request 1, requester of
\* request 2.
CliUser == "u2"

\* What the client puts on the wire: the handshake of a connection, the two
\* room events, and the loss of a connection's transport.
WireEvent(e, s, r) == [ev |-> e, s |-> s, rid |-> r]

\* The gateway has not yet received everything the client sent.
Pending == nEvents < Len(wire)

\* The event the gateway receives next.
NextEvent == wire[nEvents + 1]

\* connect(userId) when there is no socket yet: io(url, {auth: {userId}}).
CliConnect ==
    /\ client.sock = 0
    /\ Len(wire) < MaxEvents
    /\ client' = [client EXCEPT !.sock = 1]
    /\ wire' = Append(wire, WireEvent("connect", 1, 0))
    /\ UNCHANGED restVars
    /\ UNCHANGED gwVars

\* socket.on('connect'): the gateway has accepted the connection.
CliOnConnect ==
    /\ client.sock # 0 /\ Live(client.sock)
    /\ ~client.isConnected
    /\ client' = [client EXCEPT !.isConnected = TRUE]
    /\ UNCHANGED wire
    /\ UNCHANGED restVars
    /\ UNCHANGED gwVars

\* joinRoom(R) past its two early returns (not connected; currentRoom is R
\* already): leaveRoom(currentRoom) if there is one, emit join_room, set
\* currentRoom.
CliJoinRoom(R) ==
    /\ client.sock # 0 /\ client.isConnected
    /\ client.currentRoom # R
    /\ LET evs == IF client.currentRoom # 0
                  THEN << WireEvent("leave_room", client.sock, client.currentRoom),
                          WireEvent("join_room", client.sock, R) >>
                  ELSE << WireEvent("join_room", client.sock, R) >>
       IN /\ Len(wire) + Len(evs) <= MaxEvents
          /\ wire' = wire \o evs
    /\ client' = [client EXCEPT !.currentRoom = R]
    /\ UNCHANGED restVars
    /\ UNCHANGED gwVars

\* leaveRoom(R) past its early return (not connected): emit leave_room, and
\* clear currentRoom when it is R.
CliLeaveRoom(R) ==
    /\ client.sock # 0 /\ client.isConnected
    /\ Len(wire) < MaxEvents
    /\ wire' = Append(wire, WireEvent("leave_room", client.sock, R))
    /\ client' = [client EXCEPT !.currentRoom = IF @ = R THEN 0 ELSE @]
    /\ UNCHANGED restVars
    /\ UNCHANGED gwVars

\* The transport of the client's connection closes: socket.on('disconnect')
\* clears isConnected and the socket reconnects, which gives the client a new
\* connection at the gateway.  currentRoom is not touched.
CliOnDisconnect ==
    /\ client.isConnected
    /\ client.sock + 1 \in Sockets
    /\ Len(wire) + 2 <= MaxEvents
    /\ wire' = wire \o << WireEvent("drop", client.sock, 0),
                           WireEvent("connect", client.sock + 1, 0) >>
    /\ client' = [client EXCEPT !.isConnected = FALSE, !.sock = @ + 1]
    /\ UNCHANGED restVars
    /\ UNCHANGED gwVars

\* The gateway receives the client's handshake.
DeliverConnect ==
    /\ Pending /\ NextEvent.ev = "connect"
    /\ Connect(NextEvent.s, CliUser)

\* The gateway receives the client's join_room {requestId, userId}.
DeliverJoin ==
    /\ Pending /\ NextEvent.ev = "join_room"
    /\ JoinStart(NextEvent.s, NextEvent.rid, CliUser)

\* The gateway receives the client's leave_room {requestId, userId}.
DeliverLeave ==
    /\ Pending /\ NextEvent.ev = "leave_room"
    /\ LeaveRoom(NextEvent.s, NextEvent.rid, CliUser)

\* The gateway notices that the client's connection has closed.
DeliverDrop ==
    /\ Pending /\ NextEvent.ev = "drop"
    /\ Disconnect(NextEvent.s)

\* One client and the gateway: the gateway receives what the client sent, in
\* the order it was sent.
ClientNext ==
    \/ CliConnect
    \/ CliOnConnect
    \/ \E R \in RoomIds : CliJoinRoom(R)
    \/ \E R \in RoomIds : CliLeaveRoom(R)
    \/ CliOnDisconnect
    \/ DeliverConnect
    \/ DeliverJoin
    \/ DeliverLeave
    \/ DeliverDrop
    \/ \E s \in Sockets : JoinResume(s)

\* =====================================================================
\*  The message routes (routes/messages.js)
\* =====================================================================

\* A row of the Message collection (isRead defaults to false).
MessageRow(i, r, u, read) == [id |-> i, request |-> r, sender |-> u, isRead |-> read]

\* The access check shared by the message routes: 404 without the request,
\* 403 when the caller is neither its requester nor its helper.
MessageAccess(r, u) ==
    IF r \notin 1..Len(requests) THEN "NotFound"
    ELSE IF requests[r].requester # u /\ requests[r].helper # u THEN "Forbidden"
    ELSE "pass"

\* A query for the requests the user has created only.
MyRequestsAsRequester(u) ==
    {r \in 1..Len(requests) : requests[r].requester = u}

\* HelpRequest.find({$or: [{requester: id}, {helper: id}]}), as ids.
MyRequests(u) ==
    {r \in 1..Len(requests) : requests[r].requester = u \/ requests[r].helper = u}

\* Message.countDocuments({request: {$in: ids}, isRead: false}).
CountUnread(ids) ==
    Cardinality({k \in 1..Len(messages) :
                    messages[k].request \in ids /\ ~messages[k].isRead})

\* Message.updateMany({request: {$in: ids}, isRead: false}, {isRead: true}).
MarkRead(ids) ==
    [k \in 1..Len(messages) |->
        IF messages[k].request \in ids THEN [messages[k] EXCEPT !.isRead = TRUE]
        ELSE messages[k]]

\* Every other call has answered (or has not arrived).
Quiet(c) == \A d \in Calls \ {c} : calls[d].pc \in {"idle", "done"}

\* The store the message routes start from: the two requests of GwRequests,
\* and two messages on request 1, the first of them already read.
MsgInit ==
    /\ requests = GwRequests
    /\ calls = [c \in Calls |-> IdleCall]
    /\ emitted = {}
    /\ lastAccept = [r \in 1..Len(GwRequests) |-> 0]
    /\ sock = [s \in Sockets |-> FreshSock]
    /\ joined = [s \in Sockets |-> {}]
    /\ connectedUsers = EmptyMap
    /\ userRooms = EmptyMap
    /\ roomUsers = EmptyMap
    /\ messages = << MessageRow(1, 1, "u1", TRUE), MessageRow(2, 1, "u2", FALSE) >>
    /\ nEvents = 0
    /\ joins = [s \in Sockets |-> IdleJoin]
    /\ sends = [s \in Sockets |-> IdleSend]
    /\ client = IdleClient
    /\ wire = <<>>

\* POST /messages up to the await of save(): the request lookup and access
\* check, then the lookup of the sender's User document.
MessageFind(c, u, r) ==
    /\ NextCall(c)
    /\ LET base == [IdleCall EXCEPT !.kind = "message", !.caller = u, !.rid = r,
                                    !.quiet = Quiet(c)]
           chk == MessageAccess(r, u)
       IN calls' = [calls EXCEPT ![c] =
             IF chk # "pass" THEN [base EXCEPT !.pc = "done", !.resp = chk]
             ELSE IF u \notin UserDocs THEN [base EXCEPT !.pc = "done", !.resp = "NotFound"]
             ELSE [base EXCEPT !.pc = "save", !.seenHelper = requests[r].helper]]
    /\ UNCHANGED <<requests, emitted, lastAccept>>
    /\ UNCHANGED gwVars
    /\ UNCHANGED cliVars

\* The other party of the request document a POST /messages call holds: the
\* helper when the caller is the requester, the requester otherwise.
Recipient(c) ==
    IF requests[calls[c].rid].requester = calls[c].caller
    THEN calls[c].seenHelper
    ELSE requests[calls[c].rid].requester

\* newMessage.save() of POST /messages lands; the handler then looks the
\* other party up and, when that user exists, awaits sendEmail inside the
\* handler's only try block: a rejected sendMail reaches the catch that
\* answers 500, a resolved one (or no recipient) leads to the 201.
\* ok: transporter.sendMail resolved.
MessageSaveMail(c, ok) ==
    /\ calls[c].kind = "message" /\ calls[c].pc = "save"
    /\ messages' = Append(messages,
                       MessageRow(Len(messages) + 1, calls[c].rid, calls[c].caller, FALSE))
    /\ LET attempted == Recipient(c) \in UserDocs
       IN calls' = [calls EXCEPT
             ![c].pc = "done",
             ![c].got = Len(messages) + 1,
             ![c].mail = IF ~attempted THEN None
                         ELSE IF ok THEN "sent" ELSE "failed",
             ![c].resp = IF attempted /\ ~ok THEN "Error" ELSE "Created"]
    /\ UNCHANGED <<requests, emitted, lastAccept>>
    /\ UNCHANGED <<sock, joined, connectedUsers, userRooms, roomUsers, nEvents, joins, sends>>
    /\ UNCHANGED cliVars

\* The POST /messages whose email goes out.
MessageSave(c) == MessageSaveMail(c, TRUE)

\* PUT /messages/request/:requestId/read up to the await of updateMany.
ReadFind(c, u, r) ==
    /\ NextCall(c)
    /\ LET base == [IdleCall EXCEPT !.kind = "read", !.caller = u, !.rid = r,
                                    !.quiet = Quiet(c)]
           chk == MessageAccess(r, u)
       IN calls' = [calls EXCEPT ![c] =
             IF chk # "pass" THEN [base EXCEPT !.pc = "done", !.resp = chk]
             ELSE [base EXCEPT !.pc = "update"]]
    /\ UNCHANGED <<requests, emitted, lastAccept>>
    /\ UNCHANGED gwVars
    /\ UNCHANGED cliVars

\* The updateMany of the mark-read call lands.
ReadUpdate(c) ==
    /\ calls[c].kind = "read" /\ calls[c].pc = "update"
    /\ messages' = MarkRead({calls[c].rid})
    /\ calls' = [calls EXCEPT ![c].pc = "done", ![c].resp = "OK"]
    /\ UNCHANGED <<requests, emitted, lastAccept>>
    /\ UNCHANGED <<sock, joined, connectedUsers, userRooms, roomUsers, nEvents, joins, sends>>
    /\ UNCHANGED cliVars

\* PUT /messages/read-all up to the await of updateMany: the ids of the
\* caller's requests.
ReadAllFind(c, u) ==
    /\ NextCall(c)
    /\ calls' = [calls EXCEPT ![c] =
          [IdleCall EXCEPT !.kind = "readall", !.caller = u, !.pc = "update",
                           !.seenIds = MyRequests(u), !.quiet = Quiet(c)]]
    /\ UNCHANGED <<requests, emitted, lastAccept>>
    /\ UNCHANGED gwVars
    /\ UNCHANGED cliVars

\* The updateMany of the read-all call lands.
ReadAllUpdate(c) ==
    /\ calls[c].kind = "readall" /\ calls[c].pc = "update"
    /\ messages' = MarkRead(calls[c].seenIds)
    /\ calls' = [calls EXCEPT ![c].pc = "done", ![c].resp = "OK"]
    /\ UNCHANGED <<requests, emitted, lastAccept>>
    /\ UNCHANGED <<sock, joined, connectedUsers, userRooms, roomUsers, nEvents, joins, sends>>
    /\ UNCHANGED cliVars

\* GET /messages/unread/count up to the await of countDocuments: the ids of
\* the caller's requests.
CountFind(c, u) ==
    /\ NextCall(c)
    /\ calls' = [calls EXCEPT ![c] =
          [IdleCall EXCEPT !.kind = "count", !.caller = u, !.pc = "count",
                           !.seenIds = MyRequests(u), !.quiet = Quiet(c)]]
    /\ UNCHANGED <<requests, emitted, lastAccept>>
    /\ UNCHANGED gwVars
    /\ UNCHANGED cliVars

\* countDocuments answers; res.json({count}).
CountDocs(c) ==
    /\ calls[c].kind = "count" /\ calls[c].pc = "count"
    /\ calls' = [calls EXCEPT ![c].pc = "done", ![c].resp = "OK",
                              ![c].count = CountUnread(calls[c].seenIds)]
    /\ UNCHANGED <<requests, emitted, lastAccept>>
    /\ UNCHANGED gwVars
    /\ UNCHANGED cliVars

\* The message routes together with accept, over the requests of MsgInit.
MsgNext ==
    \/ \E c \in Calls, u \in Users, r \in 1..Len(GwRequests) : AcceptFind(c, u, r)
    \/ \E c \in Calls : AcceptSave(c)
    \/ \E c \in Calls, u \in Users, r \in 1..Len(GwRequests) : MessageFind(c, u, r)
    \/ \E c \in Calls : MessageSave(c)
    \/ \E c \in Calls, u \in Users, r \in 1..Len(GwRequests) : ReadFind(c, u, r)
    \/ \E c \in Calls : ReadUpdate(c)
    \/ \E c \in Calls, u \in Users : ReadAllFind(c, u)
    \/ \E c \in Calls : ReadAllUpdate(c)
    \/ \E c \in Calls, u \in Users : CountFind(c, u)
    \/ \E c \in Calls : CountDocs(c)

\* Accept, complete and POST /messages over the requests of MsgInit, the
\* mail transport free to fail.
MailNext ==
    \/ \E c \in Calls, u \in Users, r \in 1..Len(GwRequests) : AcceptFind(c, u, r)
    \/ \E c \in Calls, ok \in BOOLEAN : AcceptSaveMail(c, ok)
    \/ \E c \in Calls, u \in Users, r \in 1..Len(GwRequests) : CompleteFind(c, u, r)
    \/ \E c \in Calls, ok \in BOOLEAN : CompleteSaveMail(c, ok)
    \/ \E c \in Calls, u \in Users, r \in 1..Len(GwRequests) : MessageFind(c, u, r)
    \/ \E c \in Calls, ok \in BOOLEAN : MessageSaveMail(c, ok)

\* =====================================================================
\*  Specifications
\* =====================================================================

\* The request routes, with no gateway activity.
Spec == RestInit /\ [][RestNext]_vars

\* One POST / and the GET /:id calls that follow it.
RoundTripSpec == RoundTripInit /\ [][RoundTripNext]_vars

\* The message routes and accept.
MsgSpec == MsgInit /\ [][MsgNext]_vars

\* The routes that send email.
MailSpec == MsgInit /\ [][MailNext]_vars

\* The client's SocketService against the gateway.
ClientSpec == GwInit /\ [][ClientNext]_vars

\* The gateway over a fixed request store.
GatewaySpec == GwInit /\ [][GwNext]_vars

\* A chat in progress: connection 1 of u1 (the requester of request 1) has
\* connected and joined room 1; nEvents counts the events received from here.
JoinedInit ==
    /\ requests = GwRequests
    /\ calls = [c \in Calls |-> IdleCall]
    /\ emitted = {}
    /\ lastAccept = [r \in ReqIds |-> 0]
    /\ sock = [s \in Sockets |->
                  IF s = 1 THEN [FreshSock EXCEPT !.st = "live", !.uid = "u1"]
                  ELSE FreshSock]
    /\ joined = [s \in Sockets |-> IF s = 1 THEN {1} ELSE {}]
    /\ connectedUsers = MapSet(EmptyMap, "u1", 1)
    /\ userRooms = MapSet(EmptyMap, "u1", {1})
    /\ roomUsers = MapSet(EmptyMap, 1, {"u1"})
    /\ messages = <<>>
    /\ nEvents = 0
    /\ joins = [s \in Sockets |-> IdleJoin]
    /\ sends = [s \in Sockets |-> IdleSend]
    /\ client = IdleClient
    /\ wire = <<>>

\* The gateway from a chat in progress, every event carrying requestId 1.
RejoinSpec == JoinedInit /\ [][GwNextFor({1})]_vars

\* The chat of one request (every event carries requestId 1), with progress
\* of the send_message handler: a save() that was issued settles, and the
\* handler's continuation then runs.
ChatNext == GwNextFor({1})

ChatFairSpec ==
    /\ GwInit /\ [][ChatNext]_vars
    /\ \A s \in Sockets :
          /\ WF_vars(\E ok \in BOOLEAN : SendSave(s, ok))
          /\ WF_vars(SendEmit(s))

\* =====================================================================
\*  Properties of the request lifecycle (checked under Spec)
\* =====================================================================

Stored == 1..Len(requests)
Found(c) == calls[c].seenStatus # None      \* findById of call c returned a document

\* C1: in every reachable state of the request store, under every
\* interleaving of create, accept and complete, a request with status open
\* has no helper and a request with status in_progress or completed has a
\* helper set.
C1_HelperMatchesStatus ==
    \A r \in Stored :
        /\ requests[r].status = "open" => requests[r].helper = None
        /\ requests[r].status \in {"in_progress", "completed"}
              => requests[r].helper \in Users

\* Two accepts overlapped on one request and it has since been completed.
C1_Witness ==
    \E r \in Stored : \E c, d \in Calls :
        /\ c # d
        /\ calls[c].kind = "accept" /\ calls[d].kind = "accept"
        /\ calls[c].rid = r /\ calls[d].rid = r
        /\ calls[c].resp = "OK" /\ calls[d].resp = "OK"
        /\ requests[r].status = "completed"
        /\ requests[r].helper \in Users

\* C2: in every reachable state, also when accept and complete calls on the
\* same request interleave between their findById and their save, a request
\* whose completedAt is set has status completed.
C2_CompletedAtImpliesCompleted ==
    \A r \in Stored :
        requests[r].completedAt # NoDate => requests[r].status = "completed"

\* C3: every change of a stored status is open -> in_progress or
\* in_progress -> completed; a completed request never changes status again,
\* status never moves backwards, and status cancelled is never produced.
C3_OnlyForwardTransitions ==
    [][\A r \in Stored :
          /\ requests'[r].status # "cancelled"
          /\ requests'[r].status # requests[r].status
                => <<requests[r].status, requests'[r].status>> \in
                      {<<"open", "in_progress">>, <<"in_progress", "completed">>}
      ]_vars

\* The Date taken by call c is stored in no document and c made no broadcast:
\* call c has written nothing (a save stamps acceptedAt or completedAt with
\* the instant of its call).
WroteNothing(c) ==
    /\ \A r \in Stored : requests[r].acceptedAt # c /\ requests[r].completedAt # c
    /\ \A r \in ReqIds : lastAccept[r] # c
    /\ \A e \in emitted : e.call # c

\* C4: an accept whose findById returns a request with status other than
\* open answers InvalidStateError (400), writes nothing to the request
\* (helper, status, acceptedAt stay as they are) and emits no
\* request_accepted or request_status_updated event.
C4_AcceptNotOpenFails ==
    \A c \in Calls :
        (calls[c].kind = "accept" /\ calls[c].seenStatus \notin {None, "open"})
        => /\ calls[c].pc = "done"
           /\ calls[c].resp = "InvalidState"
           /\ WroteNothing(c)

\* An accept found the request already in progress and was refused.
C4_Witness ==
    \E c \in Calls :
        /\ calls[c].kind = "accept" /\ calls[c].pc = "done"
        /\ calls[c].seenStatus = "in_progress"
        /\ calls[c].caller # requests[calls[c].rid].requester
        /\ calls[c].resp = "InvalidState"

\* C5 (as claimed): accept called by the request's own requester always
\* fails with SelfAcceptError, whatever the status of the request.
C5_RequesterAlwaysSelfAccept ==
    \A c \in Calls :
        (/\ calls[c].kind = "accept" /\ calls[c].pc = "done" /\ Found(c)
         /\ calls[c].caller = requests[calls[c].rid].requester)
        => calls[c].resp = "SelfAccept"

\* C5 (amended): accept called by the request's own requester always fails
\* and leaves the request unchanged; the error is SelfAcceptError when the
\* request it read is open and InvalidStateError when it is in_progress or
\* completed (the status check runs first).
C5_RequesterAcceptFails ==
    \A c \in Calls :
        (/\ calls[c].kind = "accept" /\ Found(c)
         /\ calls[c].caller = requests[calls[c].rid].requester)
        => /\ calls[c].pc = "done"
           /\ calls[c].resp =
                 IF calls[c].seenStatus = "open" THEN "SelfAccept"
                 ELSE "InvalidState"
           /\ WroteNothing(c)

\* The requester tried to accept the open request and, in another call, the
\* same request once it was no longer open.
C5_Witness ==
    \E c, d \in Calls :
        /\ calls[c].kind = "accept" /\ calls[d].kind = "accept"
        /\ calls[c].rid = calls[d].rid /\ Found(c) /\ Found(d)
        /\ calls[c].caller = requests[calls[c].rid].requester
        /\ calls[d].caller = calls[c].caller
        /\ calls[c].seenStatus = "open" /\ calls[c].resp = "SelfAccept"
        /\ calls[d].seenStatus # "open" /\ calls[d].resp = "InvalidState"

\* C6: a complete whose findById returns a request that is not in_progress,
\* or whose helper is not the caller, fails, writes nothing (status and
\* completedAt stay as they are) and emits no request_status_updated event.
C6_CompleteRefused ==
    \A c \in Calls :
        (/\ calls[c].kind = "complete" /\ Found(c)
         /\ \/ calls[c].seenStatus # "in_progress"
            \/ calls[c].seenHelper # calls[c].caller)
        => /\ calls[c].pc = "done"
           /\ calls[c].resp \in {"InvalidState", "Forbidden"}
           /\ WroteNothing(c)

\* One complete was refused for the status and another for the caller.
C6_Witness ==
    \E c, d \in Calls :
        /\ calls[c].kind = "complete" /\ calls[c].pc = "done"
        /\ calls[c].seenStatus \in {"open", "completed"}
        /\ calls[c].resp = "InvalidState"
        /\ calls[d].kind = "complete" /\ calls[d].pc = "done"
        /\ calls[d].seenStatus = "in_progress"
        /\ calls[d].seenHelper # calls[d].caller
        /\ calls[d].resp = "Forbidden"

\* The scenario of C7 as three successive calls on request 1: B accepts,
\* then A (the requester) calls complete, then B calls complete; each call
\* reads the request after the previous call's write.
C7_Scenario ==
    /\ Len(requests) >= 1
    /\ calls[1].kind = "accept" /\ calls[1].rid = 1
    /\ calls[1].caller # requests[1].requester /\ calls[1].seenStatus = "open"
    /\ calls[2].kind = "complete" /\ calls[2].rid = 1
    /\ calls[2].caller = requests[1].requester
    /\ calls[2].seenStatus = "in_progress" /\ calls[2].seenHelper = calls[1].caller
    /\ calls[3].kind = "complete" /\ calls[3].rid = 1
    /\ calls[3].caller = calls[1].caller
    /\ calls[3].seenStatus = "in_progress" /\ calls[3].seenHelper = calls[1].caller
    /\ calls[3].pc = "done"

\* C7 (as claimed): in the scenario, the complete call by A fails with
\* InvalidStateError.
C7_RequesterCompleteInvalidState ==
    C7_Scenario => calls[2].resp = "InvalidState"

\* C7 (amended): after A creates a request and B (B # A) accepts it, a
\* complete call by A fails with ForbiddenError (403, A is not the helper)
\* and changes nothing, and a following complete call by B sets
\* status=completed and completedAt, with helper B and acceptedAt kept.
C7_ScenarioOutcome ==
    C7_Scenario =>
        /\ calls[2].pc = "done" /\ calls[2].resp = "Forbidden"
        /\ \A e \in emitted : e.call # 2
        /\ requests[1].status = "completed"
        /\ requests[1].completedAt # NoDate
        /\ requests[1].helper = calls[1].caller
        /\ requests[1].acceptedAt = 1

\* The scenario has run to its end: all three calls have answered.
C7_Witness ==
    /\ C7_Scenario
    /\ calls[1].resp = "OK" /\ calls[3].resp = "OK"
    /\ calls[2].resp = "Forbidden"
    /\ requests[1].status = "completed"

\* C8: two concurrent accepts by different non-requesters can both pass the
\* status check before either save lands; every accept that passed the
\* checks answers success, and the stored helper is the caller of the accept
\* whose save landed last, so a caller that was answered success need not be
\* the stored helper.
C8_LastAcceptWins ==
    /\ \A c \in Calls :
          (/\ calls[c].kind = "accept" /\ calls[c].pc = "done"
           /\ calls[c].seenStatus = "open"
           /\ calls[c].caller # requests[calls[c].rid].requester)
          => calls[c].resp = "OK"
    /\ \A r \in Stored :
          requests[r].helper =
             IF lastAccept[r] = 0 THEN None ELSE calls[lastAccept[r]].caller

\* Both accepts were answered success and one of the callers is not the helper.
C8_Witness ==
    \E c, d \in Calls :
        /\ c # d
        /\ calls[c].kind = "accept" /\ calls[d].kind = "accept"
        /\ calls[c].rid = calls[d].rid
        /\ calls[c].caller # calls[d].caller
        /\ calls[c].seenStatus = "open" /\ calls[d].seenStatus = "open"
        /\ calls[c].resp = "OK" /\ calls[d].resp = "OK"
        /\ requests[calls[c].rid].helper = calls[d].caller
        /\ lastAccept[calls[c].rid] = d

\* =====================================================================
\*  Properties of the gateway (checked under GatewaySpec / ChatFairSpec)
\* =====================================================================

RowsOf(i) == {k \in 1..Len(messages) : messages[k].id = i}
Sent(s) == sends[s].pc = "done" /\ sends[s].outcome = "sent"
MsgIds == 1..MaxEvents

\* C9: a send_message for room R by a sender whose User document exists
\* saves exactly one Message row, and its 'message' event reaches the
\* connection of every user listed in roomUsers[R] at the moment of the
\* broadcast (and no connection that is not in R at that moment).
C9_MessageReachesRoomUsers ==
    \A s \in Sockets :
        Sent(s) =>
            /\ Cardinality(RowsOf(sends[s].id)) = 1
            /\ \A u \in sends[s].members :
                  \E t \in sends[s].rcpt : sock[t].uid = u

\* Every message has at most one row, and a handler past its save() has its
\* row, with the request and sender it was sent with.
C10_Rows ==
    /\ \A i \in MsgIds : Cardinality(RowsOf(i)) <= 1
    /\ \A s \in Sockets :
          (sends[s].pc = "emit" \/ Sent(s)) =>
             \E k \in 1..Len(messages) :
                /\ messages[k].id = sends[s].id
                /\ messages[k].request = sends[s].rid
                /\ messages[k].sender = sends[s].uid

\* The step that finishes a handler past its save() broadcasts 'message' to
\* exactly the connected sockets that are in the socket.io room at that moment.
C10_BroadcastStep ==
    \A s \in Sockets :
        (sends[s].pc = "emit" /\ sends'[s].pc = "done") =>
            /\ sends'[s].outcome = "sent"
            /\ sends'[s].rcpt =
                  {t \in Sockets : sock[t].st = "live" /\ sends[s].rid \in joined[t]}

C11_RejoinRestores ==
    [][\A s \in Sockets :
          /\ (/\ joins[s].pc = "find" /\ joins'[s].pc = "idle"
               /\ joins[s].rid \in joins[s].left
               /\ joins[s].uid = sock[s].uid
               /\ Live(s)
               /\ JoinAllowed(joins[s].rid, joins[s].uid))
              => /\ joins[s].rid \in joined'[s]
                 /\ joins[s].rid \in DOMAIN roomUsers'
                 /\ joins[s].uid \in roomUsers'[joins[s].rid]
                 /\ joins[s].uid \in DOMAIN userRooms'
                 /\ joins[s].rid \in userRooms'[joins[s].uid]
          /\ (sends[s].pc = "emit" /\ sends'[s].pc = "done")
              => \A t \in Sockets :
                    (Live(t) /\ sends[s].rid \in joined[t]) => t \in sends'[s].rcpt
      ]_vars

\* C12: when a connection disconnects, its user is removed from
\* connectedUsers and from the member set of every room the user had joined
\* (the userRooms entry is deleted, a room left empty is deleted), and
\* 'user_left_room' goes to the remaining members of every such room, that is
\* to a live connection of each of them.
C12_DisconnectCleansUp ==
    [][\A s \in Sockets :
          (Live(s) /\ sock'[s].st = "closed") =>
             LET uid == sock[s].uid
                 had == (IF uid \in DOMAIN userRooms THEN userRooms[uid] ELSE {})
                           \cup {r \in DOMAIN roomUsers : uid \in roomUsers[r]}
             IN /\ uid \notin DOMAIN connectedUsers'
                /\ uid \notin DOMAIN userRooms'
                /\ \A r \in had :
                      r \in DOMAIN roomUsers' =>
                         /\ uid \notin roomUsers'[r]
                         /\ roomUsers'[r] # {}
                         /\ \A u \in roomUsers'[r] :
                               (\E t \in Sockets : Live(t) /\ sock[t].uid = u)
                               => \E t \in Sockets :
                                     /\ Live(t) /\ sock[t].uid = u
                                     /\ <<r, t>> \in sock'[s].leftTo
      ]_vars

\* C13: every Message row ever persisted references an existing HelpRequest
\* and has a sender who is the requester or the assigned helper of that
\* request (the request store does not change under GatewaySpec, so the
\* request at the time of the save is the stored one).
C13_RowsOfParticipants ==
    \A k \in 1..Len(messages) :
        /\ messages[k].request \in 1..Len(requests)
        /\ \/ requests[messages[k].request].requester = messages[k].sender
           \/ requests[messages[k].request].helper = messages[k].sender

\* C14: join_room adds a connection to a request's room (socket group and
\* both presence maps) only if the request exists and the connection's own
\* authenticated user (socket.userId) is its requester or assigned helper; in
\* every other case the join changes no presence map and the connection
\* joins no group.
C14_JoinOnlyOwnParticipant ==
    [][\A s \in Sockets :
          (/\ joins[s].pc = "find" /\ joins'[s].pc = "idle"
           /\ ~JoinAllowed(joins[s].rid, sock[s].uid))
          => /\ joined' = joined
             /\ userRooms' = userRooms
             /\ roomUsers' = roomUsers
      ]_vars

\* The connections accepted so far under userId u (live or since closed).
AcceptedAs(u) == {s \in Sockets : sock[s].st \in {"live", "closed"} /\ sock[s].uid = u}

\* C16: a connection whose handshake carries no truthy auth.userId is
\* rejected and creates no entry in connectedUsers or userRooms (every key of
\* the two maps is the userId of an accepted connection, a rejected
\* connection has none and is registered nowhere); an accepted connection
\* sets connectedUsers[userId] to itself, replacing any earlier entry: while
\* no connection of the user has disconnected, the one handle registered for
\* the user is the user's latest connection.
C16_HandshakeAndRegistry ==
    /\ \A s \in Sockets :
          sock[s].st = "rejected" =>
             /\ sock[s].uid = NoAuth
             /\ \A u \in DOMAIN connectedUsers : connectedUsers[u] # s
    /\ \A u \in (DOMAIN connectedUsers) \cup (DOMAIN userRooms) :
          u # NoAuth /\ AcceptedAs(u) # {}
    /\ \A u \in DOMAIN connectedUsers :
          /\ connectedUsers[u] \in AcceptedAs(u)
          /\ \A s \in AcceptedAs(u) : s <= connectedUsers[u]
    /\ \A u \in AuthIds :
          (AcceptedAs(u) # {} /\ \A s \in AcceptedAs(u) : Live(s))
          => u \in DOMAIN connectedUsers /\ u \in DOMAIN userRooms

\* The second connection of u1 has replaced the first in the registry, both
\* still being open.
C16_Witness ==
    /\ Live(1) /\ Live(2)
    /\ sock[1].uid = "u1" /\ sock[2].uid = "u1"
    /\ connectedUsers["u1"] = 2

\* C18: on a successful send_message to room R, 'notification' is pushed to
\* exactly the users in roomUsers[R] other than the sender that have an
\* entry in connectedUsers (to the connection registered there); the sender
\* never receives a notification for their own message, and users outside
\* roomUsers[R] receive none.
C18_NotificationTargets ==
    [][\A s \in Sockets :
          (sends[s].pc = "emit" /\ sends'[s].pc = "done") =>
             LET R == sends[s].rid
                 sender == sends[s].uid
                 want == {u \in MembersOf(R) \ {sender} : u \in DOMAIN connectedUsers}
             IN /\ sends'[s].outcome = "sent"
                /\ {sock[t].uid : t \in sends'[s].notified} = want
                /\ \A u \in want : connectedUsers[u] \in sends'[s].notified
                /\ \A t \in sends'[s].notified :
                      /\ t # s /\ sock[t].uid # sender
                      /\ sock[t].uid \in MembersOf(R)
                      /\ connectedUsers[sock[t].uid] = t
      ]_vars

\* u1 and u2 are both listed in the room and connected; a message of one of
\* them was notified to the other's connection only.
C18_Witness ==
    \E s, t \in Sockets :
        /\ s # t /\ Sent(s)
        /\ sends[s].members = {sends[s].uid, sock[t].uid}
        /\ sock[t].uid # sends[s].uid
        /\ sends[s].notified = {t}

\* A send whose write failed has no row, no 'message' and no 'notification'
\* recipient, and its 'error' went to the sending connection only.
C19_FailedSendState ==
    \A s \in Sockets :
        sends[s].outcome = "error" =>
            /\ sends[s].pc = "done"
            /\ RowsOf(sends[s].id) = {}
            /\ sends[s].rcpt = {} /\ sends[s].notified = {}
            /\ sends[s].errTo \subseteq {s}

\* The step in which the write of a send fails changes neither the Message
\* collection nor the presence maps nor the rooms, and sends 'error' to the
\* sending connection.
C19_FailedSendStep ==
    \A s \in Sockets :
        (sends[s].pc = "save" /\ sends'[s].pc = "done") =>
            /\ sends'[s].outcome = "error"
            /\ messages' = messages
            /\ connectedUsers' = connectedUsers
            /\ userRooms' = userRooms /\ roomUsers' = roomUsers
            /\ joined' = joined
            /\ Live(s) => sends'[s].errTo = {s}

\* C19: if the database write in send_message fails, no Message row exists
\* for that send, no 'message' broadcast and no 'notification' is emitted to
\* anyone, only the sending connection receives an 'error' event, and the
\* presence maps are unchanged.
C19_FailedWriteOnlyErrors ==
    []C19_FailedSendState /\ [][C19_FailedSendStep]_vars

\* The write of a message failed while another listed user was connected and
\* in the room; the sender got the 'error'.
C19_Witness ==
    \E s, t \in Sockets :
        /\ s # t
        /\ sends[s].outcome = "error" /\ sends[s].errTo = {s}
        /\ Live(t) /\ sends[s].rid \in joined[t]
        /\ sock[t].uid \in MembersOf(sends[s].rid)
        /\ sock[t].uid # sends[s].uid

\* C20: roomUsers never maps a room to an empty member set: after any
\* sequence of join_room, leave_room and disconnect events, every room key
\* present in roomUsers has at least one member.
C20_NoEmptyRoom ==
    \A r \in DOMAIN roomUsers : roomUsers[r] # {}

\* A connection that had joined room 1 has left it and the room's entry is
\* gone; another room still has its member.
C20_Witness ==
    /\ \E s \in Sockets : Live(s) /\ 1 \in joins[s].left
    /\ DOMAIN roomUsers = {2}

\* The GET /:id calls that fetched the request created by call 1.
C17_Fetches ==
    {c \in Calls : /\ calls[1].resp = "Created"
                   /\ calls[c].kind = "get" /\ calls[c].resp = "OK"
                   /\ calls[c].rid = calls[1].rid}

\* C17 (as claimed): creating a request and fetching it by id returns
\* exactly the title, description, category and urgency supplied at creation,
\* also for titles or descriptions with leading or trailing whitespace, with
\* status open and no helper.
C17_RoundTripExact ==
    \A c \in C17_Fetches :
        /\ calls[c].got.title = calls[1].body.title
        /\ calls[c].got.description = calls[1].body.description
        /\ calls[c].got.category = calls[1].body.categoryId
        /\ calls[1].body.urgency # NoUrgency
              => calls[c].got.urgency = calls[1].body.urgency
        /\ calls[c].got.status = "open" /\ calls[c].got.helper = None

\* C17 (amended): creating a request and fetching it by id returns the
\* title and description supplied with their leading and trailing whitespace
\* removed, the category supplied and the urgency supplied (medium when none
\* was), with status open and no helper; the fetched document is the one the
\* creation answered with.
C17_RoundTripTrimmed ==
    \A c \in C17_Fetches :
        /\ calls[c].got.title = Trim(calls[1].body.title)
        /\ calls[c].got.description = Trim(calls[1].body.description)
        /\ calls[c].got.category = calls[1].body.categoryId
        /\ calls[c].got.urgency =
              IF calls[1].body.urgency = NoUrgency THEN "medium"
              ELSE calls[1].body.urgency
        /\ calls[c].got.status = "open" /\ calls[c].got.helper = None
        /\ calls[c].got.requester = calls[1].caller
        /\ calls[c].got = calls[1].got

\* A request whose title had whitespace on both sides and whose description
\* had inner whitespace was created and fetched.
C17_Witness ==
    \E c \in C17_Fetches :
        /\ calls[1].body.title = <<" ", "a", " ">>
        /\ calls[1].body.description = <<"a", " ", "a">>
        /\ calls[1].body.urgency = "high"
        /\ calls[c].got.title = <<"a">>
        /\ calls[c].got.description = <<"a", " ", "a">>

\* C15: the unread count returned by GET /messages/unread/count for a caller
\* equals the number of Message rows with isRead=false over all requests
\* where the caller is requester or helper, after any sequence of message
\* sends, accepts and mark-read calls: for a count call that arrived when
\* the calls before it had answered and that no call has followed yet.
C15_UnreadCount ==
    \A c \in Calls :
        (/\ calls[c].kind = "count" /\ calls[c].pc = "done" /\ calls[c].quiet
         /\ \A d \in Calls : d > c => calls[d].kind = "idle")
        => calls[c].count =
              Cardinality({k \in 1..Len(messages) :
                  /\ ~messages[k].isRead
                  /\ \/ requests[messages[k].request].requester = calls[c].caller
                     \/ requests[messages[k].request].helper = calls[c].caller})

\* u1 accepted request 2, u2 then wrote a message on it, and u1's count
\* then answered 2: that message and the unread one on request 1, not the
\* message already read.
C15_Witness ==
    /\ calls[1].kind = "accept" /\ calls[1].caller = "u1" /\ calls[1].rid = 2
    /\ calls[1].resp = "OK"
    /\ calls[2].kind = "message" /\ calls[2].caller = "u2" /\ calls[2].rid = 2
    /\ calls[2].resp = "Created" /\ calls[2].quiet
    /\ calls[3].kind = "count" /\ calls[3].caller = "u1" /\ calls[3].pc = "done"
    /\ calls[3].quiet /\ calls[3].count = 2
    /\ Len(messages) = 3

\* ---------------------------------------------------------------------
\* C21: when an email of accept or complete fails, the status change the
\* call saved is kept and the call answers with success and the updated
\* request.  The step in which a call finishes with a failed email answers OK
\* with the stored document, and that document carries the new status (for
\* accept also the caller as helper and the acceptance date).
C21_MailFailureKeepsChange ==
    [][\A c \in Calls :
        (calls[c].pc = "save" /\ calls'[c].pc = "done"
            /\ calls'[c].mail = "failed"
            /\ calls[c].kind \in {"accept", "complete"})
        => /\ calls'[c].resp = "OK"
           /\ calls'[c].got = requests'[calls[c].rid]
           /\ IF calls[c].kind = "accept"
              THEN /\ requests'[calls[c].rid].status = "in_progress"
                   /\ requests'[calls[c].rid].helper = calls[c].caller
                   /\ requests'[calls[c].rid].acceptedAt = c
              ELSE /\ requests'[calls[c].rid].status = "completed"
                   /\ requests'[calls[c].rid].completedAt = c]_vars

\* An accept and a complete have both finished with a failed email.
C21_Witness ==
    /\ \E c \in Calls : calls[c].kind = "accept" /\ calls[c].pc = "done"
                          /\ calls[c].mail = "failed"
    /\ \E c \in Calls : calls[c].kind = "complete" /\ calls[c].pc = "done"
                          /\ calls[c].mail = "failed"

\* ---------------------------------------------------------------------
\* C22: when the notification email of POST /messages fails, the message
\* stays persisted and the call answers 201 with the message.  A call whose
\* row was saved and whose email failed answered Created, and its row is in
\* the collection.
C22_MessageMailBestEffort ==
    \A c \in Calls :
        (calls[c].kind = "message" /\ calls[c].pc = "done"
            /\ calls[c].mail = "failed")
        => /\ calls[c].resp = "Created"
           /\ RowsOf(calls[c].got) # {}
\* ---------------------------------------------------------------------
\* C23: the two presence maps agree in every reachable state: room R is in
\* userRooms[u] exactly when u is in roomUsers[R], whatever userId the
\* payloads carry and however many connections share a userId.
C23_PresenceMapsAgree ==
    \A u \in AuthIds, R \in RoomIds :
        (u \in DOMAIN userRooms /\ R \in userRooms[u])
        <=> (R \in DOMAIN roomUsers /\ u \in roomUsers[R])

\* A connection has closed, and a room lists a user none of whose live
\* connections is subscribed to it (the user was joined by a payload userId).
C23_Witness ==
    /\ \E s \in Sockets : sock[s].st = "closed"
    /\ \E u \in AuthIds, R \in RoomIds :
          /\ u \in MembersOf(R)
          /\ u \in DOMAIN userRooms /\ R \in userRooms[u]
          /\ \A t \in Sockets : (Live(t) /\ sock[t].uid = u) => R \notin joined[t]

\* ---------------------------------------------------------------------
\* C24: in every reachable state connectedUsers and userRooms have the same
\* keys, and every user listed in a roomUsers member set has a
\* connectedUsers entry.
C24_SameKeys ==
    /\ DOMAIN connectedUsers = DOMAIN userRooms
    /\ \A R \in DOMAIN roomUsers : roomUsers[R] \subseteq DOMAIN connectedUsers

\* Two connections shared a userId, the older one has disconnected and the
\* newer one is still live; a room still has members.
C24_Witness ==
    /\ \E s, t \in Sockets :
          /\ s < t /\ sock[s].st = "closed" /\ Live(t)
          /\ sock[s].uid = sock[t].uid
    /\ DOMAIN roomUsers # {}
\* ---------------------------------------------------------------------
\* C25: whenever a live connection authenticated as u exists, connectedUsers
\* has an entry for u that is a live connection, and u has its userRooms
\* entry: the disconnect of an older connection of u takes nothing away
\* from a newer one.
C25_LiveUserRegistered ==
    \A s \in Sockets :
        Live(s) =>
            /\ sock[s].uid \in DOMAIN connectedUsers
            /\ Live(connectedUsers[sock[s].uid])
            /\ sock[s].uid \in DOMAIN userRooms
\* ---------------------------------------------------------------------
\* C26: u is in roomUsers[R] exactly when the connection registered for u in
\* connectedUsers is subscribed to the socket.io room R that the 'message'
\* broadcast goes to.
C26_PresenceMatchesDelivery ==
    \A u \in AuthIds, R \in RoomIds :
        u \in MembersOf(R)
        <=> (u \in DOMAIN connectedUsers /\ R \in joined[connectedUsers[u]])
\* ---------------------------------------------------------------------
\* The presence entries of user u are the same before and after the step.
C27_Untouched(u) ==
    /\ (u \in DOMAIN userRooms') <=> (u \in DOMAIN userRooms)
    /\ u \in DOMAIN userRooms => userRooms'[u] = userRooms[u]
    /\ \A R \in RoomIds :
          (R \in DOMAIN roomUsers' /\ u \in roomUsers'[R])
          <=> (R \in DOMAIN roomUsers /\ u \in roomUsers[R])

\* C27: a join_room or leave_room sent on a connection authenticated as X
\* changes only X's presence entries: no step of either handler adds or
\* removes another user in userRooms or roomUsers, whatever userId the
\* payload carries.
C27_OnlyOwnPresence ==
    [][\A s \in Sockets :
          (\/ JoinResume(s)
           \/ \E rid \in RoomIds, uid \in AuthIds : LeaveRoom(s, rid, uid))
          => \A u \in AuthIds \ {sock[s].uid} : C27_Untouched(u)]_vars
\* ---------------------------------------------------------------------
\* The rooms for which the last event of connection s, sent under its own
\* userId, was a leave_room that followed a join_room: the rooms it left
\* after having joined them, and the room it left while the join was awaiting
\* its lookup.
C28_LeftLast(s) == joins[s].left \cup ({joins[s].late} \ {0})

\* C28: when a connection has sent join_room(R) and afterwards
\* leave_room(R), then once both handlers have finished the user is not in
\* roomUsers[R], R is not in the user's userRooms set and the connection is
\* not subscribed to R, also when the leave_room was handled while the
\* join_room awaited its lookup.
C28_LeaveAfterJoinLeaves ==
    \A s \in Sockets :
        (Live(s) /\ joins[s].pc = "idle") =>
            \A R \in C28_LeftLast(s) :
                /\ R \notin joined[s]
                /\ sock[s].uid \notin MembersOf(R)
                /\ sock[s].uid \in DOMAIN userRooms => R \notin userRooms[sock[s].uid]
\* ---------------------------------------------------------------------
\* C29: a message stays unread until a participant other than its sender
\* marks the request's messages read: the updateMany of a mark-read or
\* read-all call sets isRead on no unread message that the caller sent.
C29_OwnMessageStaysUnread ==
    [][\A c \in Calls :
          (calls[c].pc = "update" /\ calls'[c].pc = "done")
          => \A k \in 1..Len(messages) :
                (messages[k].sender = calls[c].caller /\ ~messages[k].isRead)
                => ~messages'[k].isRead]_vars
\* ---------------------------------------------------------------------
\* C30: whenever the client is connected and its currentRoom is R, a request
\* in which its user is requester or helper, then once the gateway has
\* handled everything the client sent, the gateway holds the user in room R:
\* the user is in roomUsers[R] and the client's connection is subscribed to
\* R.  This covers the state after a drop and a reconnect.
C30_CurrentRoomHeld ==
    (/\ client.isConnected /\ client.currentRoom # 0
     /\ ~Pending
     /\ \A s \in Sockets : joins[s].pc = "idle"
     /\ JoinAllowed(client.currentRoom, CliUser))
    => /\ CliUser \in MembersOf(client.currentRoom)
       /\ client.currentRoom \in joined[client.sock]
====
